---------------------------- MODULE Spec2Model ----------------------------
(***************************************************************************)
(* Model of io_mesh_unreal1/__init__.py: the Blender operator that exports *)
(* an animated mesh to the Unreal Engine 1 vertex-animation pair           *)
(* <mesh>_a.3d (animation) and <mesh>_d.3d (data).                         *)
(*                                                                         *)
(* Conventions.                                                            *)
(*  - A float is modelled as an exact rational [num, den] with den > 0.    *)
(*    Mesh coordinates and UV components are multiples of 1/CoordDen.      *)
(*  - A Python int is modelled as its two's-complement bit vector          *)
(*    (a function 0..WordBits-1 -> {0,1}, least significant bit first)     *)
(*    wherever the code combines ints with &, | and <<.                    *)
(*  - A file is [created, data]; data is the byte sequence written so far. *)
(*  - A str is a sequence of one-character strings.                        *)
(*  - The platform is little-endian; the native size of 'L' is 4 or 8.     *)
(*  - The dependency graph, bmesh and the scene are Blender's: the mesh    *)
(*    they hand to execute at a frame is any of the evaluated meshes of    *)
(*    evaluated_get, and scene.frame_set assigns the current frame.        *)
(***************************************************************************)
EXTENDS Integers, Sequences, FiniteSets, TLC

VARIABLES
    \* the scene and the active object (bpy.context)
    frame_current, frame_start, frame_end,
    context_object, vertices, polygons, uv_layers, material_slots,
    \* the operator's properties
    p_scale, p_flip_model_x, p_flip_model_y, p_flip_model_z,
    p_flip_uv_u, p_flip_uv_v, p_export_format_type,
    \* the platform: struct's native size of 'L'
    long_size,
    \* execute's locals and its position
    pc, result, frame_initial, to_exp_bmesh_snap_f, to_exp_bmesh_snap, face_i,
    \* the files execute writes
    log_file, Aniv_File, Data_File, Class_File,
    \* argument and return value of a function called on its own
    call_arg, call_ret

scene == <<frame_start, frame_end, context_object, vertices, polygons,
           uv_layers, material_slots, long_size>>
props == <<p_scale, p_flip_model_x, p_flip_model_y, p_flip_model_z,
           p_flip_uv_u, p_flip_uv_v, p_export_format_type>>
locals == <<pc, result, frame_initial, to_exp_bmesh_snap_f, to_exp_bmesh_snap, face_i>>
files == <<log_file, Aniv_File, Data_File, Class_File>>
call == <<call_arg, call_ret>>
vars == <<frame_current, scene, props, locals, files, call>>

---------------------------------------------------------------------------
(* Bounds of the model *)

\* coordinates and UVs are multiples of 1/CoordDen
CoordDen == 512
\* bits kept of a Python int
WordBits == 64
\* the scene's frames are 0..MaxFrame
MaxFrame == 2
\* the base mesh has at most MaxVerts vertices
MaxVerts == 4
\* the base mesh has at most MaxFaces polygons
MaxFaces == 2
\* a material name is made of at most MaxParts fragments
MaxParts == 2

---------------------------------------------------------------------------
(* Program constants *)

CONST_EXPORT_FORMAT_UNREAL1 == "UNREAL1"
CONST_EXPORT_FORMAT_DEUSEX == "DEUSEX"

\* check_mesh: maxv = 128 / scale
MAX_UNITS == 128
\* int("0x7ff", 16), int("0x3ff", 16), int("0xffff", 16)
HEX_7FF == 2047
HEX_3FF == 1023
HEX_FFFF == 65535
\* struct's range of 'h'
SHRT_MAX == 32767

---------------------------------------------------------------------------
(* Floats as exact rationals *)

Rat(n, d) == [num |-> n, den |-> d]
\* a * b for floats a, b
RMul(a, b) == Rat(a.num * b.num, a.den * b.den)
\* a * k for a float a and the literals 8.0, 4.0, 256.0, 255
RScale(a, k) == Rat(a.num * k, a.den)
\* a < b
RLess(a, b) == a.num * b.den < b.num * a.den
RNeg(a) == Rat(-a.num, a.den)
\* PyInt with a seeded fault: rounding toward minus infinity
PyIntFloor(a) == a.num \div a.den
\* Python's int(float): truncation toward zero
PyInt(a) == IF a.num >= 0 THEN a.num \div a.den ELSE -((-a.num) \div a.den)

---------------------------------------------------------------------------
(* Python ints as bit vectors *)

BitIdx == 0 .. (WordBits - 1)
\* the two's-complement bits of an int of magnitude below 2^30
IntBits(x) == [b \in BitIdx |-> IF b < 31 THEN (x \div (2 ^ b)) % 2
                                 ELSE IF x < 0 THEN 1 ELSE 0]
\* a & b
BitAnd(a, b) == [n \in BitIdx |-> IF a[n] = 1 /\ b[n] = 1 THEN 1 ELSE 0]
\* a | b
BitOr(a, b) == [n \in BitIdx |-> IF a[n] = 1 \/ b[n] = 1 THEN 1 ELSE 0]
\* a << k
Shl(a, k) == [n \in BitIdx |-> IF n >= k THEN a[n - k] ELSE 0]

\* enc_vert_unreal with a seeded fault: the y field one bit too low
enc_vert_unreal_overlap(coord) ==
    BitOr(BitOr(BitAnd(IntBits(PyInt(RScale(coord[1], 8))), IntBits(HEX_7FF)),
                Shl(BitAnd(IntBits(PyInt(RScale(coord[2], 8))), IntBits(HEX_7FF)), 10)),
          Shl(BitAnd(IntBits(PyInt(RScale(coord[3], 4))), IntBits(HEX_3FF)), 22))

enc_vert_unreal(coord) ==
    BitOr(BitOr(BitAnd(IntBits(PyInt(RScale(coord[1], 8))), IntBits(HEX_7FF)),
                Shl(BitAnd(IntBits(PyInt(RScale(coord[2], 8))), IntBits(HEX_7FF)), 11)),
          Shl(BitAnd(IntBits(PyInt(RScale(coord[3], 4))), IntBits(HEX_3FF)), 22))

enc_vert_deusex(coord) ==
    BitOr(BitOr(BitAnd(IntBits(PyInt(RScale(coord[1], 256))), IntBits(HEX_FFFF)),
                Shl(BitAnd(IntBits(PyInt(RScale(coord[2], 256))), IntBits(HEX_FFFF)), 16)),
          Shl(BitAnd(IntBits(PyInt(RScale(coord[3], 256))), IntBits(HEX_FFFF)), 32))

---------------------------------------------------------------------------
(* struct.pack: little-endian bytes of one value, and the ranges it accepts *)

RECURSIVE BitsVal(_, _, _)
\* the number held by bits off .. off+width-1
BitsVal(bits, off, width) ==
    IF width = 0 THEN 0
    ELSE bits[off] + 2 * BitsVal(bits, off + 1, width - 1)

\* the size least significant bytes, lowest first
PackLE(bits, size) == [k \in 1 .. size |-> BitsVal(bits, 8 * (k - 1), 8)]
\* an unsigned field of size bytes holds 0 .. 2^(8*size) - 1
FitsUnsigned(bits, size) == \A n \in BitIdx : n >= 8 * size => bits[n] = 0

\* 'h': short
fits_h(x) == -(SHRT_MAX + 1) <= x /\ x <= SHRT_MAX
\* 'H': unsigned short
fits_H(x) == 0 <= x /\ x <= 2 * SHRT_MAX + 1
\* 'b': signed char
fits_b(x) == -128 <= x /\ x <= 127
\* 'B': unsigned char
fits_B(x) == 0 <= x /\ x <= 255
pack_short(x) == PackLE(IntBits(x), 2)
pack_char(x) == PackLE(IntBits(x), 1)
\* n zero bytes
Zeros(n) == [k \in 1 .. n |-> 0]

\* calcsize(vert_data_type): 'L' and 'Q' in native mode
calcsize(vert_data_type) == IF vert_data_type = "Q" THEN 8 ELSE long_size
\* the bytes pack('=' + vert_data_type, v) writes: 'L' is 4 and 'Q' is 8 in
\* standard mode
std_size(vert_data_type) == IF vert_data_type = "Q" THEN 8 ELSE 4

---------------------------------------------------------------------------
(* str *)

UPPER == <<"A", "B", "C", "D", "E", "F", "G", "H", "I", "J", "K", "L", "M",
           "N", "O", "P", "Q", "R", "S", "T", "U", "V", "W", "X", "Y", "Z">>
LOWER == <<"a", "b", "c", "d", "e", "f", "g", "h", "i", "j", "k", "l", "m",
           "n", "o", "p", "q", "r", "s", "t", "u", "v", "w", "x", "y", "z">>
\* s.lower()
lower(s) ==
    [k \in DOMAIN s |->
        IF \E u \in DOMAIN UPPER : UPPER[u] = s[k]
        THEN LOWER[CHOOSE u \in DOMAIN UPPER : UPPER[u] = s[k]]
        ELSE s[k]]
\* sub in s
In(sub, s) ==
    \E k \in 0 .. (Len(s) - Len(sub)) : SubSeq(s, k + 1, k + Len(sub)) = sub

M_SKIN == <<"(", "s", "k", "i", "n", ")">>
M_TWOSIDEDNORM == <<"(", "t", "w", "o", "s", "i", "d", "e", "d", "n", "o", "r", "m", ")">>
M_TRANSLUCENT == <<"(", "t", "r", "a", "n", "s", "l", "u", "c", "e", "n", "t", ")">>
M_TWOSIDED == <<"(", "t", "w", "o", "s", "i", "d", "e", "d", ")">>
M_WEAPON == <<"(", "w", "e", "a", "p", "o", "n", ")">>
M_UNLIT == <<"(", "u", "n", "l", "i", "t", ")">>
M_FLAT == <<"(", "f", "l", "a", "t", ")">>
M_ENVMAPPED == <<"(", "e", "n", "v", "m", "a", "p", "p", "e", "d", ")">>

\* get_jmesh_type with a seeded fault: (weapon) is tested before (translucent)
get_jmesh_type_reordered(slots, mat_idx) ==
    IF 0 > mat_idx \/ Len(slots) <= mat_idx THEN 0
    ELSE LET mat_name == lower(slots[mat_idx + 1]) IN
         IF In(M_SKIN, mat_name) THEN 0
         ELSE IF In(M_TWOSIDEDNORM, mat_name) THEN 1
         ELSE IF In(M_WEAPON, mat_name) THEN 8
         ELSE IF In(M_TRANSLUCENT, mat_name) THEN 2
         ELSE IF In(M_TWOSIDED, mat_name) THEN 3
         ELSE IF In(M_UNLIT, mat_name) THEN 16
         ELSE IF In(M_FLAT, mat_name) THEN 32
         ELSE IF In(M_ENVMAPPED, mat_name) THEN 64
         ELSE 0

\* slots is meshobj_org.material_slots, the sequence of the slots' names
get_jmesh_type(slots, mat_idx) ==
    IF 0 > mat_idx \/ Len(slots) <= mat_idx THEN 0
    ELSE LET mat_name == lower(slots[mat_idx + 1]) IN
         IF In(M_SKIN, mat_name) THEN 0
         ELSE IF In(M_TWOSIDEDNORM, mat_name) THEN 1
         ELSE IF In(M_TRANSLUCENT, mat_name) THEN 2
         ELSE IF In(M_TWOSIDED, mat_name) THEN 3
         ELSE IF In(M_WEAPON, mat_name) THEN 8
         ELSE IF In(M_UNLIT, mat_name) THEN 16
         ELSE IF In(M_FLAT, mat_name) THEN 32
         ELSE IF In(M_ENVMAPPED, mat_name) THEN 64
         ELSE 0

---------------------------------------------------------------------------
(* Files and snapshots before execute touches them *)

NoFile == [created |-> FALSE, data |-> <<>>]
NoSnapshot == [verts |-> <<>>, faces |-> <<>>, uv |-> 0]
\* log.txt: of its lines the model keeps the frames of the "Frame {} :" lines
NoLog == [created |-> FALSE, frames |-> <<>>]

---------------------------------------------------------------------------
(* The mesh and its snapshots *)

\* the k-th sample vertex: the first two stay below 64 units on every axis,
\* the next two below 128, the later ones do not
Vert(k) ==
    CASE k = 1 -> <<Rat(10 * CoordDen, CoordDen), Rat(-5 * CoordDen, CoordDen),
                    Rat(2 * CoordDen, CoordDen)>>
      [] k = 2 -> <<Rat(-(CoordDen \div 20), CoordDen), Rat(20 * CoordDen + 1, CoordDen),
                    Rat(-(MAX_UNITS \div 2) * CoordDen + 1, CoordDen)>>
      [] k = 3 -> <<Rat(3 * CoordDen, CoordDen), Rat(100 * CoordDen, CoordDen),
                    Rat(-CoordDen, CoordDen)>>
      [] k = 4 -> <<Rat(-40 * CoordDen, CoordDen), Rat(0, CoordDen),
                    Rat(MAX_UNITS * CoordDen - 1, CoordDen)>>
      [] OTHER -> <<Rat(0, CoordDen), Rat(0, CoordDen),
                    Rat((MAX_UNITS + 2) * CoordDen, CoordDen)>>
Verts(n) == [k \in 1 .. n |-> Vert(k)]

\* the sample polygons: vertex indices, material_index and one UV pair per
\* loop; the third has a material_index whose successor is no signed char
SamplePolys ==
    << [verts |-> <<0, 1, 2>>, material_index |-> 0,
        uv |-> << <<Rat(5 * (CoordDen \div 4), CoordDen), Rat(-(CoordDen \div 4), CoordDen)>>,
                  <<Rat(0, CoordDen), Rat(0, CoordDen)>>,
                  <<Rat(CoordDen \div 2, CoordDen), Rat(CoordDen, CoordDen)>> >>],
       [verts |-> <<0, 1, 2, 3>>, material_index |-> 1,
        uv |-> << <<Rat(1, CoordDen), Rat(CoordDen - 1, CoordDen)>>,
                  <<Rat(-1, CoordDen), Rat(3 * CoordDen, CoordDen)>>,
                  <<Rat(CoordDen \div 8, CoordDen), Rat(CoordDen \div 2, CoordDen)>>,
                  <<Rat(-(7 * CoordDen), CoordDen), Rat(CoordDen + 1, CoordDen)>> >>],
       [verts |-> <<2, 1, 0>>, material_index |-> 127,
        uv |-> << <<Rat(0, CoordDen), Rat(0, CoordDen)>>,
                  <<Rat(CoordDen \div 2, CoordDen), Rat(CoordDen \div 2, CoordDen)>>,
                  <<Rat(CoordDen - 1, CoordDen), Rat(1, CoordDen)>> >>] >>
\* the sample polygons a mesh of n vertices can have
ValidPolys(n) ==
    SelectSeq(SamplePolys, LAMBDA p : \A k \in DOMAIN p.verts : p.verts[k] < n)
\* the polygon lists of a mesh of n vertices, of at most m polygons
PolyLists(n, m) ==
    {SubSeq(ValidPolys(n), 1, k) : k \in 0 .. (IF m < Len(ValidPolys(n)) THEN m
                                                ELSE Len(ValidPolys(n)))}

\* what the dependency graph makes of the base mesh at the current frame:
\* nothing, one more vertex (a generating modifier), or every vertex moved
\* by 64 units along x (a deformation)
Effects == {"none", "grow", "move"}
evaluated_get(effect) ==
    [verts |-> CASE effect = "grow" -> Append(vertices, Vert(Len(vertices) + 1))
                 [] effect = "move" ->
                      [k \in DOMAIN vertices |->
                          <<Rat(vertices[k][1].num + (MAX_UNITS \div 2) * vertices[k][1].den,
                                vertices[k][1].den),
                            vertices[k][2], vertices[k][3]>>]
                 [] OTHER -> vertices,
     faces |-> polygons,
     uv |-> uv_layers]

\* the triangles of one polygon, as a fan around its first vertex
Fan(p) ==
    [t \in 1 .. (Len(p.verts) - 2) |->
        [verts |-> <<p.verts[1], p.verts[t + 1], p.verts[t + 2]>>,
         material_index |-> p.material_index,
         uv |-> <<p.uv[1], p.uv[t + 1], p.uv[t + 2]>>]]
RECURSIVE triangulate(_)
\* bmesh.ops.triangulate: every face is a triangle afterwards
triangulate(faces) ==
    IF faces = <<>> THEN <<>>
    ELSE Fan(Head(faces)) \o triangulate(Tail(faces))

Reverse(q) == [k \in 1 .. Len(q) |-> q[Len(q) + 1 - k]]
\* bmesh.ops.reverse_faces: the winding of every face is turned around
reverse_faces(faces) ==
    [k \in DOMAIN faces |->
        [verts |-> Reverse(faces[k].verts),
         material_index |-> faces[k].material_index,
         uv |-> Reverse(faces[k].uv)]]
\* v.co.<axis> *= -1 for every vertex, then reverse_faces
FlipAxis(bm, axis) ==
    [verts |-> [k \in DOMAIN bm.verts |->
                   [a \in 1 .. 3 |-> IF a = axis THEN RNeg(bm.verts[k][a])
                                      ELSE bm.verts[k][a]]],
     faces |-> reverse_faces(bm.faces),
     uv |-> bm.uv]
FlipIf(flag, bm, axis) == IF flag THEN FlipAxis(bm, axis) ELSE bm

\* meshobj_eval is the evaluated object's mesh
get_bmesh_snapshot(meshobj_eval, flip_x, flip_y, flip_z) ==
    LET bm == [verts |-> meshobj_eval.verts,
               faces |-> triangulate(meshobj_eval.faces),
               uv |-> meshobj_eval.uv]
    IN  FlipIf(flip_z, FlipIf(flip_y, FlipIf(flip_x, bm, 1), 2), 3)

---------------------------------------------------------------------------
(* check_mesh *)

RLeq(a, b) == a.num * b.den <= b.num * a.den
\* verts is mesh_obj.data.vertices
check_mesh(verts, scale) ==
    LET maxv == Rat(MAX_UNITS * scale.den, scale.num) IN
    \A k \in DOMAIN verts : \A a \in 1 .. 3 :
        ~(RLeq(verts[k][a], RNeg(maxv)) \/ RLeq(maxv, verts[k][a]))

---------------------------------------------------------------------------
(* UnrealMeshExport.execute *)

frames_exp_count == frame_end - frame_start + 1
vert_data_type == IF CONST_EXPORT_FORMAT_DEUSEX = p_export_format_type THEN "Q" ELSE "L"

\* set_frame with a seeded fault: a frame before the scene's range is moved
\* to the start of the range
set_frame_clamped(f) == IF f < frame_start THEN frame_start ELSE f
\* set_frame: the current frame after bpy.context.scene.frame_set(f)
set_frame(f) == f
\* advance_frame with a seeded fault: every other frame is skipped
advance_frame_by_two(f) == f + 2
\* advance_frame: set_frame(get_frame() + 1), f being get_frame()
advance_frame(f) == set_frame(f + 1)

RECURSIVE Concat(_)
\* the concatenation of a sequence of byte sequences
Concat(seqs) == IF seqs = <<>> THEN <<>> ELSE Head(seqs) \o Concat(Tail(seqs))

\* vert_coord of the vertex v
vert_coord(v) == [a \in 1 .. 3 |-> RMul(v[a], p_scale)]
\* the bytes the vertex loop writes for one vertex
vert_bytes(v) ==
    PackLE(IF CONST_EXPORT_FORMAT_DEUSEX = p_export_format_type
           THEN enc_vert_deusex(vert_coord(v))
           ELSE enc_vert_unreal(vert_coord(v)),
           std_size(vert_data_type))
\* the bytes the vertex loop writes for one frame's snapshot
frame_bytes(snap) == Concat([k \in DOMAIN snap.verts |-> vert_bytes(snap.verts[k])])

\* data_header with a seeded fault: the two counts change places
data_header_swapped(snap) ==
    pack_short(Len(snap.verts)) \o pack_short(Len(snap.faces)) \o Zeros(4)
        \o Zeros(7 * long_size) \o Zeros(12)
\* pack("4H7L12B", faces, verts, 21 zeros) in native mode: the seven 'L'
\* start at offset 8, which is aligned for either size of 'L'
data_header(snap) ==
    pack_short(Len(snap.faces)) \o pack_short(Len(snap.verts)) \o Zeros(4)
        \o Zeros(7 * long_size) \o Zeros(12)

\* one component of a loop's UV: % 1, the flip, * 255, int()
uv_byte(c, flip) ==
    LET wrapped == Rat(c.num % c.den, c.den)
        flipped == IF flip THEN Rat(wrapped.den - wrapped.num, wrapped.den) ELSE wrapped
    IN  PyInt(RScale(flipped, 255))
\* uvs of the face poly
face_uvs(poly) ==
    Concat([k \in DOMAIN poly.uv |->
               <<uv_byte(poly.uv[k][1], p_flip_uv_u), uv_byte(poly.uv[k][2], p_flip_uv_v)>>])
\* the values of pack("3H2b6B2b", ...) fit their fields
face_fits(poly) ==
    /\ \A k \in DOMAIN poly.verts : fits_H(poly.verts[k])
    /\ fits_b(get_jmesh_type(material_slots, poly.material_index))
    /\ \A k \in DOMAIN face_uvs(poly) : fits_B(face_uvs(poly)[k])
    /\ fits_b(poly.material_index + 1)
\* the record of the face poly
face_bytes(poly) ==
    Concat([k \in DOMAIN poly.verts |-> pack_short(poly.verts[k])])
        \o pack_char(get_jmesh_type(material_slots, poly.material_index))
        \o pack_char(0)
        \o Concat([k \in DOMAIN face_uvs(poly) |-> pack_char(face_uvs(poly)[k])])
        \o pack_char(poly.material_index + 1)
        \o pack_char(0)

\* execute ends: nothing of the scene, the properties or the call changes
Ends(outcome) ==
    /\ pc' = "done"
    /\ result' = outcome

\* if 0 >= frames_exp_count: return {'CANCELLED'}
CancelInvalidRange ==
    /\ pc = "execute"
    /\ 0 >= frames_exp_count
    /\ Ends("CANCELLED")
    /\ UNCHANGED <<frame_current, scene, props, frame_initial, to_exp_bmesh_snap_f,
                   to_exp_bmesh_snap, face_i, files, call>>

\* if None == context.object or 'MESH' != context.object.type
CancelNoMesh ==
    /\ pc = "execute"
    /\ ~(0 >= frames_exp_count)
    /\ context_object # "MESH"
    /\ Ends("CANCELLED")
    /\ UNCHANGED <<frame_current, scene, props, frame_initial, to_exp_bmesh_snap_f,
                   to_exp_bmesh_snap, face_i, files, call>>

\* if False == check_mesh(mesh_obj, mesh_scale)
CancelOutOfBounds ==
    /\ pc = "execute"
    /\ ~(0 >= frames_exp_count)
    /\ context_object = "MESH"
    /\ ~check_mesh(vertices, p_scale)
    /\ Ends("CANCELLED")
    /\ UNCHANGED <<frame_current, scene, props, frame_initial, to_exp_bmesh_snap_f,
                   to_exp_bmesh_snap, face_i, files, call>>

\* the checks pass: log.txt and the animation file are opened and the
\* header is written; a count that is no short raises struct.error with the
\* file open
WriteAnivHeader ==
    /\ pc = "execute"
    /\ ~(0 >= frames_exp_count)
    /\ context_object = "MESH"
    /\ check_mesh(vertices, p_scale)
    /\ log_file' = [created |-> TRUE, frames |-> <<>>]
    /\ IF ~fits_h(frames_exp_count)
       THEN /\ Aniv_File' = [created |-> TRUE, data |-> <<>>]
            /\ Ends("struct.error")
            /\ UNCHANGED frame_current
       ELSE IF ~fits_h(Len(vertices) * calcsize(vert_data_type))
       THEN /\ Aniv_File' = [created |-> TRUE, data |-> pack_short(frames_exp_count)]
            /\ Ends("struct.error")
            /\ UNCHANGED frame_current
       ELSE /\ Aniv_File' = [created |-> TRUE,
                             data |-> pack_short(frames_exp_count)
                                        \o pack_short(Len(vertices) * calcsize(vert_data_type))]
            /\ frame_current' = set_frame(frame_start)
            /\ pc' = "aniv_body"
            /\ UNCHANGED result
    /\ UNCHANGED <<scene, props, frame_initial, to_exp_bmesh_snap_f, to_exp_bmesh_snap,
                   face_i, Data_File, Class_File, call>>

\* one turn of while get_frame() <= frame_exp_end. The masks of the
\* encoders keep every value inside its 'L' or 'Q' field, so pack does not
\* raise here. to_exp_bmesh_snap_f keeps the turn's snapshot after
\* clear_bmesh_snapshot has freed it.
EncodeFrame ==
    /\ pc = "aniv_body"
    /\ frame_current <= frame_end
    /\ \E effect \in Effects :
          to_exp_bmesh_snap_f' = get_bmesh_snapshot(evaluated_get(effect), p_flip_model_x,
                                                    p_flip_model_y, p_flip_model_z)
    /\ log_file' = [log_file EXCEPT !.frames = Append(@, frame_current)]
    /\ Aniv_File' = [Aniv_File EXCEPT !.data = @ \o frame_bytes(to_exp_bmesh_snap_f')]
    /\ frame_current' = advance_frame(frame_current)
    /\ UNCHANGED <<scene, props, pc, result, frame_initial, to_exp_bmesh_snap, face_i,
                   Data_File, Class_File, call>>

\* the loop ends: set_frame(frame_initial), the animation file is closed
EndAnivBody ==
    /\ pc = "aniv_body"
    /\ ~(frame_current <= frame_end)
    /\ frame_current' = set_frame(frame_initial)
    /\ pc' = "data_header"
    /\ UNCHANGED <<scene, props, result, frame_initial, to_exp_bmesh_snap_f,
                   to_exp_bmesh_snap, face_i, files, call>>

\* the data file is opened, the snapshot taken and the header written
WriteDataHeader ==
    /\ pc = "data_header"
    /\ \E effect \in Effects :
          to_exp_bmesh_snap' = get_bmesh_snapshot(evaluated_get(effect), p_flip_model_x,
                                                  p_flip_model_y, p_flip_model_z)
    /\ IF fits_H(Len(to_exp_bmesh_snap'.faces)) /\ fits_H(Len(to_exp_bmesh_snap'.verts))
       THEN /\ Data_File' = [created |-> TRUE, data |-> data_header(to_exp_bmesh_snap')]
            /\ face_i' = 0
            /\ pc' = "data_body"
            /\ UNCHANGED result
       ELSE /\ Data_File' = [created |-> TRUE, data |-> <<>>]
            /\ Ends("struct.error")
            /\ UNCHANGED face_i
    /\ UNCHANGED <<frame_current, scene, props, frame_initial, to_exp_bmesh_snap_f,
                   log_file, Aniv_File, Class_File, call>>

\* one turn of for i, poly in enumerate(to_exp_bmesh_snap.faces)
WriteFace ==
    /\ pc = "data_body"
    /\ face_i < Len(to_exp_bmesh_snap.faces)
    /\ LET poly == to_exp_bmesh_snap.faces[face_i + 1] IN
       IF 3 # Len(poly.verts)
       THEN Ends("CANCELLED") /\ UNCHANGED <<Data_File, face_i>>
       \* uv = (0, 0) is a tuple: uv[0] = uv[0] % 1 raises TypeError
       ELSE IF ~(0 < to_exp_bmesh_snap.uv)
       THEN Ends("TypeError") /\ UNCHANGED <<Data_File, face_i>>
       ELSE IF ~face_fits(poly)
       THEN Ends("struct.error") /\ UNCHANGED <<Data_File, face_i>>
       ELSE /\ Data_File' = [Data_File EXCEPT !.data = @ \o face_bytes(poly)]
            /\ face_i' = face_i + 1
            /\ UNCHANGED <<pc, result>>
    /\ UNCHANGED <<frame_current, scene, props, frame_initial, to_exp_bmesh_snap_f,
                   to_exp_bmesh_snap, log_file, Aniv_File, Class_File, call>>

\* the faces are written: the class file is written, return {'FINISHED'}
FinishExport ==
    /\ pc = "data_body"
    /\ ~(face_i < Len(to_exp_bmesh_snap.faces))
    /\ Class_File' = [created |-> TRUE, data |-> <<frames_exp_count>>]
    /\ Ends("FINISHED")
    /\ UNCHANGED <<frame_current, scene, props, frame_initial, to_exp_bmesh_snap_f,
                   to_exp_bmesh_snap, face_i, log_file, Aniv_File, Data_File, call>>

\* execute is entered: the locals are read, nothing is written
Entered ==
    /\ pc = "execute" /\ result = "RUNNING"
    /\ frame_initial = frame_current
    /\ to_exp_bmesh_snap_f = NoSnapshot /\ to_exp_bmesh_snap = NoSnapshot
    /\ face_i = 0
    /\ log_file = NoLog /\ Aniv_File = NoFile /\ Data_File = NoFile
    /\ Class_File = NoFile
    /\ call_arg = 0 /\ call_ret = 0

\* the names of the two material slots of the sample object
SampleSlots ==
    << <<"M", "y", "S", "k", "i", "n", "(", "S", "k", "i", "n", ")", "V", "a", "r">>,
       <<"w", "a", "l", "l", "(", "f", "l", "a", "t", ")">> >>

\* exports of animations: every frame range, object, vertex count, format,
\* scale and size of 'L'; the flips at the properties' defaults
InitAnimation ==
    /\ frame_start \in 0 .. 1
    /\ frame_end \in (0 .. MaxFrame) \cup {SHRT_MAX + 1}
    /\ frame_current \in 0 .. MaxFrame
    /\ context_object \in {"None", "EMPTY", "MESH"}
    /\ IF context_object = "MESH"
       THEN \E n \in 0 .. MaxVerts :
               /\ vertices = Verts(n)
               /\ polygons \in PolyLists(n, 1)
       ELSE vertices = <<>> /\ polygons = <<>>
    /\ uv_layers = 1
    /\ material_slots = <<>>
    /\ long_size \in {4, 8}
    /\ p_scale \in {Rat(1, 1), Rat(2, 1)}
    /\ p_flip_model_x = FALSE /\ p_flip_model_y = FALSE /\ p_flip_model_z = FALSE
    /\ p_flip_uv_u = FALSE /\ p_flip_uv_v = TRUE
    /\ p_export_format_type \in {CONST_EXPORT_FORMAT_UNREAL1, CONST_EXPORT_FORMAT_DEUSEX}
    /\ Entered

\* exports of topologies: every flip, polygon list, UV layer count and
\* material slot list; one frame, the format and the scale at the
\* properties' defaults
InitTopology ==
    /\ frame_start = 1 /\ frame_end = 1 /\ frame_current = 1
    /\ context_object = "MESH"
    /\ \E n \in 3 .. MaxVerts :
          /\ vertices = Verts(n)
          /\ polygons \in PolyLists(n, MaxFaces)
    /\ uv_layers \in {0, 1}
    /\ material_slots \in {<<>>, SampleSlots}
    /\ long_size \in {4, 8}
    /\ p_scale = Rat(1, 1)
    /\ p_flip_model_x \in BOOLEAN /\ p_flip_model_y \in BOOLEAN
    /\ p_flip_model_z \in BOOLEAN
    /\ p_flip_uv_u \in BOOLEAN /\ p_flip_uv_v \in BOOLEAN
    /\ p_export_format_type = CONST_EXPORT_FORMAT_UNREAL1
    /\ Entered

Init == InitAnimation \/ InitTopology

Next ==
    \/ CancelInvalidRange
    \/ CancelNoMesh
    \/ CancelOutOfBounds
    \/ WriteAnivHeader
    \/ EncodeFrame
    \/ EndAnivBody
    \/ WriteDataHeader
    \/ WriteFace
    \/ FinishExport

Spec == Init /\ [][Next]_vars

---------------------------------------------------------------------------
(* The functions called on their own *)

\* no export is running: the scene is empty and nothing is written
NoExport ==
    /\ frame_current = 0 /\ frame_start = 0 /\ frame_end = 0
    /\ context_object = "None" /\ vertices = <<>> /\ polygons = <<>>
    /\ uv_layers = 0 /\ long_size = 4
    /\ p_scale = Rat(1, 1)
    /\ p_flip_model_x = FALSE /\ p_flip_model_y = FALSE /\ p_flip_model_z = FALSE
    /\ p_flip_uv_u = FALSE /\ p_flip_uv_v = TRUE
    /\ p_export_format_type = CONST_EXPORT_FORMAT_UNREAL1
    /\ result = "NONE" /\ frame_initial = 0
    /\ to_exp_bmesh_snap_f = NoSnapshot /\ to_exp_bmesh_snap = NoSnapshot
    /\ face_i = 0
    /\ log_file = NoLog /\ Aniv_File = NoFile /\ Data_File = NoFile
    /\ Class_File = NoFile

\* coordinates around zero, around one quantum of each layout, inside the
\* valid range, at its edge and beyond it, in units of 1/CoordDen
AxisSamples ==
    { 0, 1, -1, CoordDen \div 8, -(CoordDen \div 8), (CoordDen \div 8) + 1,
      -((CoordDen \div 8) + 1), -(CoordDen \div 20),
      10 * CoordDen, -5 * CoordDen, 2 * CoordDen,
      MAX_UNITS * CoordDen - 1, -(MAX_UNITS * CoordDen - 1),
      MAX_UNITS * CoordDen, -(MAX_UNITS * CoordDen),
      (MAX_UNITS + 72) * CoordDen + 3, -((MAX_UNITS + 72) * CoordDen + 3) }

InitEnc ==
    /\ NoExport
    /\ material_slots = <<>>
    /\ pc = "call_enc"
    /\ \E x \in AxisSamples, y \in AxisSamples, z \in AxisSamples :
          call_arg = <<Rat(x, CoordDen), Rat(y, CoordDen), Rat(z, CoordDen)>>
    /\ call_ret = <<>>

CallEncUnreal ==
    /\ pc = "call_enc"
    /\ call_ret' = enc_vert_unreal(call_arg)
    /\ pc' = "ret_enc_unreal"
    /\ UNCHANGED <<frame_current, scene, props, result, frame_initial,
                   to_exp_bmesh_snap_f, to_exp_bmesh_snap, face_i, files, call_arg>>

CallEncDeusex ==
    /\ pc = "call_enc"
    /\ call_ret' = enc_vert_deusex(call_arg)
    /\ pc' = "ret_enc_deusex"
    /\ UNCHANGED <<frame_current, scene, props, result, frame_initial,
                   to_exp_bmesh_snap_f, to_exp_bmesh_snap, face_i, files, call_arg>>

NextEnc == CallEncUnreal \/ CallEncDeusex

SpecEnc == InitEnc /\ [][NextEnc]_vars

\* |c| < 128
InRange(c) == RLess(Rat(-MAX_UNITS, 1), c) /\ RLess(c, Rat(MAX_UNITS, 1))
\* the integer nearest to q on the side of zero, and the one below q
TowardZero(q) == IF q.num >= 0 THEN q.num \div q.den ELSE -((-q.num) \div q.den)
Floor(q) == q.num \div q.den
\* a width-bit field read as a two's-complement number
SignExtend(f, width) == IF f >= 2 ^ (width - 1) THEN f - 2 ^ width ELSE f

\* C6 as stated: for |c| < 128 on every axis, the x and y fields of
\* enc_vert_unreal's value are floor(c*8) mod 2^11 and its z field is
\* floor(c*4) mod 2^10.
C6_FloorQuantization ==
    (pc = "ret_enc_unreal" /\ \A a \in 1 .. 3 : InRange(call_arg[a])) =>
        /\ BitsVal(call_ret, 0, 11) = Floor(RScale(call_arg[1], 8)) % (2 ^ 11)
        /\ BitsVal(call_ret, 11, 11) = Floor(RScale(call_arg[2], 8)) % (2 ^ 11)
        /\ BitsVal(call_ret, 22, 10) = Floor(RScale(call_arg[3], 4)) % (2 ^ 10)

\* C6 amended: for |c| < 128 on every axis, the x and y fields of
\* enc_vert_unreal's value are trunc(c*8) mod 2^11 and its z field is
\* trunc(c*4) mod 2^10, trunc rounding toward zero; a field is
\* floor(c*q) mod 2^bits exactly when c >= 0 or c*q is an integer.
C6_TruncQuantization ==
    (pc = "ret_enc_unreal" /\ \A a \in 1 .. 3 : InRange(call_arg[a])) =>
        /\ BitsVal(call_ret, 0, 11) = TowardZero(RScale(call_arg[1], 8)) % (2 ^ 11)
        /\ BitsVal(call_ret, 11, 11) = TowardZero(RScale(call_arg[2], 8)) % (2 ^ 11)
        /\ BitsVal(call_ret, 22, 10) = TowardZero(RScale(call_arg[3], 4)) % (2 ^ 10)
        /\ \A a \in 1 .. 3 :
              LET q == IF a = 3 THEN 4 ELSE 8
                  bits == IF a = 3 THEN 10 ELSE 11
                  c == call_arg[a]
              IN  (BitsVal(call_ret, 11 * (a - 1), bits) = Floor(RScale(c, q)) % (2 ^ bits))
                    <=> (c.num >= 0 \/ (c.num * q) % c.den = 0)

\* enc_vert_unreal has packed an in-range vertex whose x is negative and not
\* a multiple of 1/8
C6_Witness ==
    /\ pc = "ret_enc_unreal"
    /\ \A a \in 1 .. 3 : InRange(call_arg[a])
    /\ call_arg[1].num < 0
    /\ (call_arg[1].num * 8) % call_arg[1].den # 0

\* C7: for every vertex enc_vert_unreal returns
\* (trunc(8x) & 0x7ff) | ((trunc(8y) & 0x7ff) << 11) | ((trunc(4z) & 0x3ff) << 22),
\* below 2^32, and enc_vert_deusex returns (trunc(256x) & 0xffff) |
\* ((trunc(256y) & 0xffff) << 16) | ((trunc(256z) & 0xffff) << 32), below 2^48;
\* each field holds its own component only, and for |c| < 128 the
\* sign-extended field is the truncated quantized value.
C7_PackerLayout ==
    /\ pc = "ret_enc_unreal" =>
          /\ BitsVal(call_ret, 0, 11) = TowardZero(RScale(call_arg[1], 8)) % (2 ^ 11)
          /\ BitsVal(call_ret, 11, 11) = TowardZero(RScale(call_arg[2], 8)) % (2 ^ 11)
          /\ BitsVal(call_ret, 22, 10) = TowardZero(RScale(call_arg[3], 4)) % (2 ^ 10)
          /\ \A n \in BitIdx : n >= 32 => call_ret[n] = 0
          /\ \A a \in 1 .. 3 : InRange(call_arg[a]) =>
                SignExtend(BitsVal(call_ret, 11 * (a - 1), IF a = 3 THEN 10 ELSE 11),
                           IF a = 3 THEN 10 ELSE 11)
                  = TowardZero(RScale(call_arg[a], IF a = 3 THEN 4 ELSE 8))
    /\ pc = "ret_enc_deusex" =>
          /\ \A a \in 1 .. 3 :
                BitsVal(call_ret, 16 * (a - 1), 16)
                  = TowardZero(RScale(call_arg[a], 256)) % (2 ^ 16)
          /\ \A n \in BitIdx : n >= 48 => call_ret[n] = 0
          /\ \A a \in 1 .. 3 : InRange(call_arg[a]) =>
                SignExtend(BitsVal(call_ret, 16 * (a - 1), 16), 16)
                  = TowardZero(RScale(call_arg[a], 256))

\* scenario A: enc_vert_unreal has packed (10.0, -5.0, 2.0) as the fields
\* 80, -40 & 0x7ff and 8
C7_Witness ==
    /\ pc = "ret_enc_unreal"
    /\ call_arg = <<Rat(10 * CoordDen, CoordDen), Rat(-5 * CoordDen, CoordDen),
                    Rat(2 * CoordDen, CoordDen)>>
    /\ BitsVal(call_ret, 0, 11) = 80
    /\ BitsVal(call_ret, 11, 11) = 2008
    /\ BitsVal(call_ret, 22, 10) = 8

---------------------------------------------------------------------------
(* get_jmesh_type called on its own *)

\* what material names are made of: the markers, markers in other cases,
\* a marker without its closing parenthesis, and plain text
Fragments ==
    { M_SKIN, M_TWOSIDEDNORM, M_TRANSLUCENT, M_TWOSIDED, M_WEAPON, M_UNLIT,
      M_FLAT, M_ENVMAPPED,
      <<"(", "S", "k", "i", "n", ")">>,
      <<"(", "T", "W", "O", "S", "I", "D", "E", "D", ")">>,
      <<"(", "u", "n", "l", "i", "t">>,
      <<"M", "y">>,
      <<"s", "k", "i", "n">> }

RECURSIVE Names(_)
\* the names of at most n fragments
Names(n) ==
    IF n = 0 THEN {<<>>}
    ELSE Names(n - 1) \cup {name \o f : name \in Names(n - 1), f \in Fragments}

InitJmesh ==
    /\ NoExport
    /\ \E name \in Names(MaxParts) :
          material_slots \in {<<>>, <<name>>, <<<<"M", "y">>, name>>}
    /\ pc = "call_jmesh"
    /\ call_arg \in -1 .. 2
    /\ call_ret = -1

CallJmeshType ==
    /\ pc = "call_jmesh"
    /\ call_ret' = get_jmesh_type(material_slots, call_arg)
    /\ pc' = "ret_jmesh"
    /\ UNCHANGED <<frame_current, scene, props, result, frame_initial,
                   to_exp_bmesh_snap_f, to_exp_bmesh_snap, face_i, files, call_arg>>

NextJmesh == CallJmeshType

SpecJmesh == InitJmesh /\ [][NextJmesh]_vars

\* the table of section 4.5, in its order
MarkerTable ==
    << <<M_SKIN, 0>>, <<M_TWOSIDEDNORM, 1>>, <<M_TRANSLUCENT, 2>>, <<M_TWOSIDED, 3>>,
       <<M_WEAPON, 8>>, <<M_UNLIT, 16>>, <<M_FLAT, 32>>, <<M_ENVMAPPED, 64>> >>
\* a and b are the same character up to case
SameLetter(a, b) ==
    a = b \/ \E u \in DOMAIN UPPER : {a, b} = {UPPER[u], LOWER[u]}
\* marker occurs in name, case ignored
OccursIgnoringCase(marker, name) ==
    \E k \in 0 .. (Len(name) - Len(marker)) :
        \A j \in 1 .. Len(marker) : SameLetter(marker[j], name[k + j])
\* the rows of the table whose marker occurs in name
Hits(name) == {r \in DOMAIN MarkerTable : OccursIgnoringCase(MarkerTable[r][1], name)}
FirstHit(name) == CHOOSE r \in Hits(name) : \A q \in Hits(name) : r <= q

\* C8: get_jmesh_type returns the value of the first marker, in the table's
\* order, that occurs in the slot's name with case ignored; 0 when none
\* occurs or the slot index is negative or not below the number of slots;
\* the value always fits the record's signed byte.
C8_FirstMarkerWins ==
    pc = "ret_jmesh" =>
        /\ call_ret = IF call_arg < 0 \/ call_arg >= Len(material_slots) THEN 0
                      ELSE IF Hits(material_slots[call_arg + 1]) = {} THEN 0
                      ELSE MarkerTable[FirstHit(material_slots[call_arg + 1])][2]
        /\ call_ret \in {0, 1, 2, 3, 8, 16, 32, 64}
        /\ fits_b(call_ret)

\* get_jmesh_type has returned 3 for a name that holds (flat) before a
\* (TWOSIDED) in upper case
C8_Witness ==
    /\ pc = "ret_jmesh"
    /\ call_arg = 0
    /\ material_slots = << M_FLAT \o <<"(", "T", "W", "O", "S", "I", "D", "E", "D", ")">> >>
    /\ call_ret = 3

---------------------------------------------------------------------------
(* Properties of execute *)

\* the 16-bit little-endian number at bytes k, k+1 of d
ShortAt(d, k) == d[k] + 256 * d[k + 1]
\* bytes written per packed vertex
PackedWidth == IF p_export_format_type = CONST_EXPORT_FORMAT_DEUSEX THEN 8 ELSE 4
\* the frames frame_start, frame_start + 1, ..., n of them
FramesFrom(n) == [k \in 1 .. n |-> frame_start + k - 1]

\* C1: when execute ends in a fatal error (a cancellation or a value that
\* cannot be packed), neither the animation file nor the data file has been
\* created.
C1_FailureLeavesNoOutput ==
    (pc = "done" /\ result \in {"CANCELLED", "struct.error"}) =>
        (~Aniv_File.created /\ ~Data_File.created)

\* C2: every coordinate of every vertex of a snapshot whose vertices were
\* handed to the encoders has, after scaling, a magnitude below 128.
C2_OnlyInRangeEncoded ==
    \A k \in DOMAIN to_exp_bmesh_snap_f.verts : \A a \in 1 .. 3 :
        InRange(RMul(to_exp_bmesh_snap_f.verts[k][a], p_scale))

\* C3: once a frame is written, the frame-size field of the animation
\* header is the number of vertices written for the frame times the bytes
\* written per packed vertex (4 for UNREAL1, 8 for DEUSEX).
C3_FrameSizeField ==
    Len(log_file.frames) > 0 =>
        ShortAt(Aniv_File.data, 3) = Len(to_exp_bmesh_snap_f.verts) * PackedWidth

\* C4: when the snapshot of an exported frame has another vertex count than
\* the one the header was computed from, the export has ended with
\* FrameTopologyMismatch and nothing of that frame is in the animation file.
C4_MismatchAborts ==
    (Len(log_file.frames) > 0 /\ Len(to_exp_bmesh_snap_f.verts) # Len(vertices)) =>
        /\ pc = "done" /\ result = "FrameTopologyMismatch"
        /\ Len(log_file.frames) = 1 => Len(Aniv_File.data) = 4

\* the data file is a header of h bytes, then one 16-byte record per face of
\* the snapshot in the snapshot's order; the header holds the face count, the
\* vertex count and zeros
DataFileLayout(h) ==
    LET d == Data_File.data
        faces == to_exp_bmesh_snap.faces
    IN  /\ Len(d) = h + 16 * Len(faces)
        /\ ShortAt(d, 1) = Len(faces)
        /\ ShortAt(d, 3) = Len(to_exp_bmesh_snap.verts)
        /\ \A k \in 5 .. (IF h < Len(d) THEN h ELSE Len(d)) : d[k] = 0
        /\ Len(d) = h + 16 * Len(faces) =>
              \A f \in DOMAIN faces :
                  /\ \A j \in 1 .. 3 :
                        ShortAt(d, h + 16 * (f - 1) + 2 * j - 1) = faces[f].verts[j]
                  /\ d[h + 16 * (f - 1) + 15] = faces[f].material_index + 1

C9_NoUVLayerCompletes ==
    ( /\ pc = "done" /\ Data_File.created
      /\ to_exp_bmesh_snap.uv = 0
      /\ Len(to_exp_bmesh_snap.faces) > 0
      /\ \A f \in DOMAIN to_exp_bmesh_snap.faces :
            fits_b(to_exp_bmesh_snap.faces[f].material_index + 1) ) =>
        /\ result = "FINISHED"
        /\ Len(Data_File.data) = 8 + 7 * long_size + 12 + 16 * Len(to_exp_bmesh_snap.faces)
        /\ \A f \in DOMAIN to_exp_bmesh_snap.faces : \A j \in 9 .. 14 :
              Data_File.data[8 + 7 * long_size + 12 + 16 * (f - 1) + j] \in {0, 255}

\* C10: inside the frame loop the frames encoded so far are frame_start,
\* frame_start + 1, ... up to the frame before the current one, and the
\* current frame is at most frame_end + 1, so the loop ends after
\* frame_end - frame_start + 1 turns; after the loop the frames encoded are
\* exactly frame_start .. frame_end and their number is the header's frame
\* count; after each turn the block just written holds the packed vertices
\* of the turn's snapshot in the snapshot's index order.
C10_FramesInOrder ==
    /\ pc = "aniv_body" =>
          /\ frame_start <= frame_current /\ frame_current <= frame_end + 1
          /\ log_file.frames = FramesFrom(frame_current - frame_start)
    /\ (pc \in {"data_header", "data_body"} \/ (pc = "done" /\ Data_File.created)) =>
          /\ log_file.frames = FramesFrom(frame_end - frame_start + 1)
          /\ ShortAt(Aniv_File.data, 1) = Len(log_file.frames)
    /\ (pc = "aniv_body" /\ Len(log_file.frames) > 0) =>
          LET d == Aniv_File.data
              vs == to_exp_bmesh_snap_f.verts
              w == PackedWidth
          IN  /\ Len(d) >= 4 + w * Len(vs)
              /\ \A k \in DOMAIN vs :
                    SubSeq(d, Len(d) - w * (Len(vs) - k + 1) + 1, Len(d) - w * (Len(vs) - k))
                      = vert_bytes(vs[k])

\* an export of the frames 0, 1, 2 has finished, its last block holding at
\* least two vertices
C10_Witness ==
    /\ result = "FINISHED"
    /\ log_file.frames = <<0, 1, 2>>
    /\ Len(to_exp_bmesh_snap_f.verts) >= 2

\* C11: whenever execute has returned FINISHED or CANCELLED, the scene's
\* current frame is the frame that was current when execute was entered
\* (frame_initial, which no step of execute changes): the frame is not moved
\* before the frame loop begins, so the early cancellations leave it alone,
\* and from the reset after the loop on, while the data file is written and
\* where the non-triangle cancellation can occur, it is the initial frame
\* again.
C11_FrameRestored ==
    /\ (pc = "done" /\ result \in {"FINISHED", "CANCELLED"}) =>
          frame_current = frame_initial
    /\ pc = "execute" => frame_current = frame_initial
    /\ pc \in {"data_header", "data_body"} => frame_current = frame_initial
    /\ (pc = "done" /\ result = "CANCELLED") =>
          (log_file.frames = <<>> \/ Data_File.created)

\* an export entered at frame 0 has encoded the frames 1 and 2, which left
\* the frame loop at frame 3, and has finished
C11_Witness ==
    /\ pc = "done" /\ result = "FINISHED"
    /\ frame_initial = 0
    /\ frame_start = 1
    /\ log_file.frames = <<1, 2>>
    /\ frame_current = 0

=============================================================================
